---- MODULE Spec2Model ----
(***************************************************************************)
(* Model of main.py: three dollar-cost-averaging strategies (ATH-distance, *)
(* market-cap, equal-weight) simulated month by month over aligned BTC and *)
(* ETH monthly closing prices.                                             *)
(*                                                                         *)
(* Arithmetic.  The script computes in float64.  The model computes the    *)
(* same expressions exactly (no rounding).  TLC integers have 32 bits, so  *)
(* the two constants that would overflow them stay symbolic:               *)
(*   S   = supply_ratio_eth_to_btc = 120000000 / 19700000                  *)
(*   eps = 1e-12, the term added to total_dist                             *)
(* A number is a linear combination, with rational coefficients, of        *)
(*   1,  S,  eps  and reciprocals  1 / (c + s*S + e*eps).                  *)
(* Every expression of the script stays in this form: the only divisions   *)
(* are by a price, by an ATH, by total_dist (= rational + eps) and by      *)
(* 1 + mc_ratio (= 1 + rational * S).  Signs and comparisons substitute    *)
(* the values of S and eps.  Prices are nonzero integers: a price of 0,    *)
(* which float64 turns into inf and nan, is outside the model.             *)
(***************************************************************************)
EXTENDS Integers, Sequences, FiniteSets, TLC

----------------------------------------------------------------------------
(* Rationals: [n |-> numerator, d |-> denominator > 0], in lowest terms.   *)

(* TLC evaluates an operator's argument again at every use of the          *)
(* parameter when it evaluates a state predicate or ENABLED.  Strict1 and  *)
(* Strict2 evaluate the arguments once and apply F to the values.          *)
Strict1(F(_), x) == CHOOSE r \in {F(u) : u \in {x}} : TRUE
Strict2(F(_, _), x, y) == CHOOSE r \in {F(u, v) : u \in {x}, v \in {y}} : TRUE

Abs(x) == IF x < 0 THEN -x ELSE x

RECURSIVE GCD(_, _)
GCD(a, b) == IF b = 0 THEN a ELSE GCD(b, a % b)

Rat(n, d) ==
    Strict2(LAMBDA a, b :
                Strict1(LAMBDA g : IF b < 0 THEN [n |-> -(a \div g), d |-> -(b \div g)]
                                   ELSE [n |-> a \div g, d |-> b \div g],
                        GCD(Abs(a), Abs(b))),
            n, d)

RInt(k) == [n |-> k, d |-> 1]
RZero == RInt(0)
ROne == RInt(1)
RNeg(a) == [n |-> -a.n, d |-> a.d]
RAdd(a, b) ==
    IF a.n = 0 THEN b
    ELSE IF b.n = 0 THEN a
    ELSE Rat(a.n * b.d + b.n * a.d, a.d * b.d)
RSub(a, b) == RAdd(a, RNeg(b))
RMul(a, b) == IF a.n = 0 \/ b.n = 0 THEN RZero ELSE Rat(a.n * b.n, a.d * b.d)
RDiv(a, b) == IF a.n = 0 THEN RZero ELSE Rat(a.n * b.d, a.d * b.n)
RSign(a) == IF a.n > 0 THEN 1 ELSE IF a.n < 0 THEN -1 ELSE 0

RECURSIVE RPow(_, _)
RPow(a, k) == IF k = 0 THEN ROne ELSE RMul(a, RPow(a, k - 1))

----------------------------------------------------------------------------
(* Program constants.                                                      *)

\* supply_ratio_eth_to_btc = 120_000_000 / 19_700_000
SupplyEth == 120000000
SupplyBtc == 19700000
supply_ratio_eth_to_btc == Rat(SupplyEth, SupplyBtc)

\* the term 1e-12 of total_dist is eps = 10^-EpsExp
EpsExp == 12

\* monthly_budget = 500.0
monthly_budget == 500

\* if len(df) < 12: raise ValueError
MinPoints == 12

----------------------------------------------------------------------------
(* Numbers:                                                                *)
(*   [c, s, e, inv]  =  c + s*S + e*eps + SUM q \in DOMAIN inv :           *)
(*                                   inv[q] / (q.c + q.s*S + q.e*eps)      *)
(* c, s, e and the values of inv are rationals; inv holds no zero          *)
(* coefficient and every divisor q is monic in its leading symbol (S if    *)
(* present, else eps), so equal numbers have equal representations.        *)

NoInv == [q \in {} |-> RZero]

Num(r) == [c |-> r, s |-> RZero, e |-> RZero, inv |-> NoInv]
Int2Num(j) == Num(RInt(j))
Zero == Int2Num(0)
One == Int2Num(1)
Eps == [c |-> RZero, s |-> RZero, e |-> ROne, inv |-> NoInv]
SupplyRatio == [c |-> RZero, s |-> ROne, e |-> RZero, inv |-> NoInv]

IsAffine(x) == DOMAIN x.inv = {}
IsRat(x) == IsAffine(x) /\ x.s = RZero /\ x.e = RZero

MergeInv(f, g) ==
    LET at(h, q) == IF q \in DOMAIN h THEN h[q] ELSE RZero
        keep == {q \in (DOMAIN f) \cup (DOMAIN g) : RAdd(at(f, q), at(g, q)) # RZero}
    IN  IF DOMAIN f = {} THEN g
        ELSE IF DOMAIN g = {} THEN f
        ELSE [q \in keep |-> RAdd(at(f, q), at(g, q))]

Add(x, y) ==
    Strict2(LAMBDA u, v :
                [c |-> RAdd(u.c, v.c), s |-> RAdd(u.s, v.s), e |-> RAdd(u.e, v.e),
                 inv |-> MergeInv(u.inv, v.inv)],
            x, y)

\* r * x for a rational r
Scale(r, x) ==
    Strict2(LAMBDA a, u :
                IF a = RZero THEN Zero
                ELSE [c |-> RMul(a, u.c), s |-> RMul(a, u.s), e |-> RMul(a, u.e),
                      inv |-> [q \in DOMAIN u.inv |-> RMul(a, u.inv[q])]],
            r, x)

Sub(x, y) == Add(x, Scale(RInt(-1), y))

\* one factor of every product of the script is a plain rational
Mul(x, y) ==
    Strict2(LAMBDA u, v :
                CASE IsRat(u) -> Scale(u.c, v)
                  [] IsRat(v) -> Scale(v.c, u),
            x, y)

\* k / y for a rational k and an affine y that holds S or eps
Recip(k, y) ==
    LET lead == IF y.s # RZero THEN y.s ELSE y.e
    IN  IF k = RZero THEN Zero
        ELSE [c |-> RZero, s |-> RZero, e |-> RZero,
              inv |-> [q \in {[c |-> RDiv(y.c, lead), s |-> RDiv(y.s, lead),
                               e |-> RDiv(y.e, lead)]} |-> RDiv(k, lead)]]

\* a divisor is a nonzero rational, or affine in S / eps under a rational
Div(x, y) ==
    Strict2(LAMBDA u, v :
                CASE IsRat(v) /\ v.c # RZero -> Scale(RDiv(ROne, v.c), u)
                  [] ~IsRat(v) /\ IsAffine(v) /\ IsRat(u) -> Recip(u.c, v),
            x, y)

(* The sign of a number, with S and eps at their values.  Written as a     *)
(* Laurent series in eps, the number is                                    *)
(*   a[-1]/eps + a[0] + a[1]*eps + a[2]*eps^2 + ...                        *)
(* and eps = 10^-EpsExp is far below every ratio of two coefficients the   *)
(* 32-bit rationals of the model can form, so the first nonzero            *)
(* coefficient decides the sign.  A divisor q with q.e # 0 is              *)
(* q.e * (D + eps) with D = (q.c + q.s*S) / q.e:                           *)
(*   1/(D + eps) = 1/eps                         when D = 0                *)
(*               = 1/D - eps/D^2 + eps^2/D^3 ... otherwise                 *)

RECURSIVE RSum(_, _, _)
RSum(f(_), set, acc) ==
    IF set = {} THEN acc
    ELSE LET q == CHOOSE p \in set : TRUE
         IN  RSum(f, set \ {q}, RAdd(acc, f(q)))

DivBase(q) == RAdd(q.c, RMul(q.s, supply_ratio_eth_to_btc))

Laurent(x, m) ==
    LET D(q) == RDiv(DivBase(q), q.e)
        k(q) == RDiv(x.inv[q], q.e)
        plain == {q \in DOMAIN x.inv : q.e = RZero}
        pole == {q \in DOMAIN x.inv : q.e # RZero /\ DivBase(q) = RZero}
        reg == {q \in DOMAIN x.inv : q.e # RZero /\ DivBase(q) # RZero}
        term(q) == RDiv(k(q), RPow(D(q), m + 1))
        series == RSum(term, reg, RZero)
        signed == IF m % 2 = 0 THEN series ELSE RNeg(series)
    IN  IF m = -1 THEN RSum(k, pole, RZero)
        ELSE IF m = 0 THEN
            LET inplain(q) == RDiv(x.inv[q], DivBase(q))
            IN  RSum(inplain, plain,
                     RAdd(RAdd(x.c, RMul(x.s, supply_ratio_eth_to_btc)), signed))
        ELSE IF m = 1 THEN RAdd(x.e, signed)
        ELSE signed

RECURSIVE FirstSign(_, _, _)
FirstSign(x, m, last) ==
    IF m > last THEN 0
    ELSE LET a == Laurent(x, m)
         IN  IF a # RZero THEN RSign(a) ELSE FirstSign(x, m + 1, last)

Sign(x) ==
    Strict1(LAMBDA u : FirstSign(u, -1, Cardinality(DOMAIN u.inv) + 1), x)

\* x <= y
Le(x, y) == Sign(Sub(y, x)) >= 0

----------------------------------------------------------------------------
(* Bounds of the model.                                                    *)

\* prices are drawn from 1..MaxPrice
MaxPrice == 2
\* a monthly series repeats a pattern of PatLen prices
PatLen == 2
\* a series has MinPoints - 1 .. MinPoints + MaxExtra points
MaxExtra == 0
\* the pure functions are also applied to every series of 1..MaxSeqLen
\* prices drawn from 1..MaxSeqPrice
MaxSeqLen == 4
MaxSeqPrice == 3

----------------------------------------------------------------------------
(* State.                                                                  *)

VARIABLES
    pc,              \* "check", "loop", "done" or "aborted" (ValueError raised)
    btc_prices,      \* df['BTC'].values
    eth_prices,      \* df['ETH'].values
    btc_ath,         \* running all-time high of btc_prices
    eth_ath,         \* running all-time high of eth_prices
    i,               \* index of the next loop iteration = iterations completed
    w,               \* the distances and weights the last iteration assigned
    btc_holding,     \* strategy -> BTC quantity
    eth_holding,     \* strategy -> ETH quantity
    value,           \* strategy -> portfolio values recorded so far
    total_invested,  \* monthly_budget * n, set after the loop
    roi              \* strategy -> ROI in percent, set after the loop

vars == <<pc, btc_prices, eth_prices, btc_ath, eth_ath, i, w,
          btc_holding, eth_holding, value, total_invested, roi>>

Strategies == {"ATH", "MC", "EQ"}

\* n = len(dates)
n == Len(btc_prices)

----------------------------------------------------------------------------
(* Pure steps of the script.                                               *)

Max(a, b) == IF a >= b THEN a ELSE b

\* a mutant of MaxAccumulate: the maximum of each month and the one before
RECURSIVE MaxAccumulateWindow(_)
MaxAccumulateWindow(prices) ==
    IF Len(prices) <= 1 THEN prices
    ELSE Append(MaxAccumulateWindow(SubSeq(prices, 1, Len(prices) - 1)),
                Max(prices[Len(prices) - 1], prices[Len(prices)]))

\* np.maximum.accumulate(prices)
RECURSIVE MaxAccumulate(_)
MaxAccumulate(prices) ==
    IF Len(prices) <= 1 THEN prices
    ELSE Strict1(LAMBDA head : Append(head, Max(head[Len(head)], prices[Len(prices)])),
                 MaxAccumulate(SubSeq(prices, 1, Len(prices) - 1)))

\* lines 51-55: distances from the ATH and the ATH strategy's weights
AthWeights(p_btc, p_eth, ath_btc, ath_eth) ==
    Strict2(LAMBDA dist_btc, dist_eth :
                Strict1(LAMBDA total_dist :
                            [dist_btc |-> dist_btc, dist_eth |-> dist_eth,
                             w_btc |-> Div(dist_btc, total_dist),
                             w_eth |-> Div(dist_eth, total_dist)],
                        Add(Add(dist_btc, dist_eth), Eps)),
            Sub(One, Div(p_btc, ath_btc)),
            Sub(One, Div(p_eth, ath_eth)))

\* a mutant of McWeights: w_btc_mc = 1 / mc_ratio, the "1 +" forgotten
McWeightsNoOne(p_btc, p_eth) ==
    LET mc_ratio == Div(Mul(p_eth, SupplyRatio), p_btc)
    IN  Strict1(LAMBDA w_btc_mc : [w_btc |-> w_btc_mc, w_eth |-> Sub(One, w_btc_mc)],
                Div(One, mc_ratio))

\* lines 61-63: the market-cap strategy's weights
McWeights(p_btc, p_eth) ==
    LET mc_ratio == Div(Mul(p_eth, SupplyRatio), p_btc)
    IN  Strict1(LAMBDA w_btc_mc : [w_btc |-> w_btc_mc, w_eth |-> Sub(One, w_btc_mc)],
                Div(One, Add(One, mc_ratio)))

\* the literal 0.5 of lines 69-70
Half == Num(Rat(1, 2))
EqWeights == [w_btc |-> Half, w_eth |-> Half]

\* the weights of strategy s at iteration k (0-based) of the loop
Weights(s, k) ==
    CASE s = "ATH" -> AthWeights(Int2Num(btc_prices[k + 1]), Int2Num(eth_prices[k + 1]),
                                 Int2Num(btc_ath[k + 1]), Int2Num(eth_ath[k + 1]))
      [] s = "MC" -> McWeights(Int2Num(btc_prices[k + 1]), Int2Num(eth_prices[k + 1]))
      [] s = "EQ" -> EqWeights

\* a mutant of Buy: -= for +=
BuySells(holding, weight, price) ==
    Sub(holding, Div(Mul(Int2Num(monthly_budget), weight), Int2Num(price)))

\* holding += (monthly_budget * weight) / price
Buy(holding, weight, price) ==
    Add(holding, Div(Mul(Int2Num(monthly_budget), weight), Int2Num(price)))

\* a mutant of Block: every block adds its BTC purchase to btc_holding['ATH']
BlockCopyPaste(s, st, k) ==
    Strict2(LAMBDA v, wt :
                [v EXCEPT
                   !.w[s] = wt,
                   !.btc_holding[s] =
                       Add(v.btc_holding["ATH"],
                           Div(Mul(Int2Num(monthly_budget), wt.w_btc),
                               Int2Num(btc_prices[k + 1]))),
                   !.eth_holding[s] =
                       Add(@, Div(Mul(Int2Num(monthly_budget), wt.w_eth),
                                  Int2Num(eth_prices[k + 1])))],
            st, Weights(s, k))

\* a mutant of Record: the prices of month i - 1 (Python wraps -1 to the last)
RecordPrevMonth(s, st, k) ==
    Strict1(LAMBDA v :
                [v EXCEPT !.value[s] =
                    Append(@, Add(Mul(v.btc_holding[s],
                                      Int2Num(btc_prices[IF k = 0 THEN n ELSE k])),
                                  Mul(v.eth_holding[s],
                                      Int2Num(eth_prices[IF k = 0 THEN n ELSE k]))))],
            st)

(* The loop body works on st = [btc_holding, eth_holding, value, w].  Each *)
(* strategy's block assigns its weights and adds this month's purchase to  *)
(* its own two holdings (lines 51-58, 61-66, 69-70); Record appends its    *)
(* portfolio value (lines 73-75).                                          *)
Block(s, st, k) ==
    Strict2(LAMBDA v, wt :
                [v EXCEPT
                   !.w[s] = wt,
                   !.btc_holding[s] = Buy(@, wt.w_btc, btc_prices[k + 1]),
                   !.eth_holding[s] = Buy(@, wt.w_eth, eth_prices[k + 1])],
            st, Weights(s, k))

Record(s, st, k) ==
    Strict1(LAMBDA v :
                [v EXCEPT !.value[s] =
                    Append(@, Add(Mul(v.btc_holding[s], Int2Num(btc_prices[k + 1])),
                                  Mul(v.eth_holding[s], Int2Num(eth_prices[k + 1]))))],
            st)

\* lines 47-75, in the order of the script
LoopBody(st, k) ==
    Record("EQ",
      Record("MC",
        Record("ATH",
          Block("EQ", Block("MC", Block("ATH", st, k), k), k), k), k), k)

----------------------------------------------------------------------------
(* Inputs: the aligned monthly frame df (lines 12-17).                     *)

Cyclic(pat, len) == [j \in 1..len |-> pat[((j - 1) % PatLen) + 1]]
Lengths == (MinPoints - 1)..(MinPoints + MaxExtra)

\* what the data model promises: positive prices
ValidPrices == 1..MaxPrice
\* what the script accepts: it never looks at the sign of a price
AnyPrices == ((-MaxPrice)..MaxPrice) \ {0}

\* names the script has not assigned yet hold these
NoHolding == [s \in Strategies |-> Zero]
NoWeights == [s \in Strategies |-> [w_btc |-> Zero, w_eth |-> Zero]]

InitOver(prices) ==
    /\ \E len \in Lengths, pb \in [1..PatLen -> prices], pe \in [1..PatLen -> prices] :
          /\ btc_prices = Cyclic(pb, len)
          /\ eth_prices = Cyclic(pe, len)
    /\ pc = "check"
    /\ btc_ath = <<>>
    /\ eth_ath = <<>>
    /\ i = 0
    /\ w = NoWeights
    /\ btc_holding = NoHolding
    /\ eth_holding = NoHolding
    /\ value = [s \in Strategies |-> <<>>]
    /\ total_invested = Zero
    /\ roi = [s \in Strategies |-> Zero]

Init == InitOver(ValidPrices)
InitAny == InitOver(AnyPrices)

----------------------------------------------------------------------------
(* Actions.                                                                *)

\* a mutant of TooFew: <= for <
TooFewInclusive(len) == len <= MinPoints

\* line 19: len(df) < 12
TooFew(len) == len < MinPoints

\* lines 19-20: too few aligned points, ValueError ends the script
Abort ==
    /\ pc = "check"
    /\ TooFew(n)
    /\ pc' = "aborted"
    /\ UNCHANGED <<btc_prices, eth_prices, btc_ath, eth_ath, i, w,
                   btc_holding, eth_holding, value, total_invested, roi>>

\* lines 22-44: running ATHs, zero holdings, empty value lists
Setup ==
    /\ pc = "check"
    /\ ~TooFew(n)
    /\ btc_ath' = MaxAccumulate(btc_prices)
    /\ eth_ath' = MaxAccumulate(eth_prices)
    /\ btc_holding' = [s \in Strategies |-> Zero]
    /\ eth_holding' = [s \in Strategies |-> Zero]
    /\ value' = [s \in Strategies |-> <<>>]
    /\ i' = 0
    /\ pc' = "loop"
    /\ UNCHANGED <<btc_prices, eth_prices, w, total_invested, roi>>

\* lines 46-75: one iteration of  for i in range(n)
Step ==
    /\ pc = "loop"
    /\ i < n
    /\ \E st \in {LoopBody([btc_holding |-> btc_holding, eth_holding |-> eth_holding,
                            value |-> value, w |-> w], i)} :
          /\ btc_holding' = st.btc_holding
          /\ eth_holding' = st.eth_holding
          /\ value' = st.value
          /\ w' = st.w
    /\ i' = i + 1
    /\ UNCHANGED <<pc, btc_prices, eth_prices, btc_ath, eth_ath,
                   total_invested, roi>>

\* lines 95-99: the loop is over; total invested and each strategy's ROI
Report ==
    /\ pc = "loop"
    /\ ~(i < n)
    /\ total_invested' = Mul(Int2Num(monthly_budget), Int2Num(n))
    /\ roi' = [s \in Strategies |->
                 Mul(Sub(Div(value[s][Len(value[s])], total_invested'), One),
                     Int2Num(100))]
    /\ pc' = "done"
    /\ UNCHANGED <<btc_prices, eth_prices, btc_ath, eth_ath, i, w,
                   btc_holding, eth_holding, value>>

Next == Abort \/ Setup \/ Step \/ Report

Spec == Init /\ [][Next]_vars
SpecAny == InitAny /\ [][Next]_vars
FairSpec == Init /\ [][Next]_vars /\ WF_vars(Next)

----------------------------------------------------------------------------
(* The pure functions on their own: the running ATH (lines 29-30) and the  *)
(* weight formulas (lines 51-55, 61-63), applied to every short series.    *)

Reverse(seq) == [j \in 1..Len(seq) |-> seq[Len(seq) + 1 - j]]
ShortSeries == UNION {[1..len -> 1..MaxSeqPrice] : len \in 1..MaxSeqLen}

PureInit ==
    /\ \E seq \in ShortSeries :
          /\ btc_prices = seq
          /\ eth_prices = Reverse(seq)
    /\ pc = "prices"
    /\ btc_ath = <<>>
    /\ eth_ath = <<>>
    /\ i = 0
    /\ w = NoWeights
    /\ btc_holding = NoHolding
    /\ eth_holding = NoHolding
    /\ value = [s \in Strategies |-> <<>>]
    /\ total_invested = Zero
    /\ roi = [s \in Strategies |-> Zero]

\* lines 29-30
Accumulate ==
    /\ pc = "prices"
    /\ btc_ath' = MaxAccumulate(btc_prices)
    /\ eth_ath' = MaxAccumulate(eth_prices)
    /\ pc' = "ath"
    /\ UNCHANGED <<btc_prices, eth_prices, i, w, btc_holding, eth_holding,
                   value, total_invested, roi>>

\* lines 51-55, 61-63 at month i
Weigh ==
    /\ pc = "ath"
    /\ i < n
    /\ w' = [s \in Strategies |-> Weights(s, i)]
    /\ i' = i + 1
    /\ UNCHANGED <<pc, btc_prices, eth_prices, btc_ath, eth_ath,
                   btc_holding, eth_holding, value, total_invested, roi>>

PureNext == Accumulate \/ Weigh
PureSpec == PureInit /\ [][PureNext]_vars

----------------------------------------------------------------------------
(* Vocabulary of the properties.                                           *)

\* the loop has run at least one iteration, so w holds that iteration's weights
Weighed == pc \in {"loop", "done", "ath"} /\ i >= 1

\* 1e-9, as a multiple of eps
Tolerance == Scale(RInt(10 ^ (EpsExp - 9)), Eps)
Within(x, y, tol) == Le(Sub(x, y), tol) /\ Le(Sub(y, x), tol)

\* what a strategy's weights spend of one month's budget
SpentWith(wt) ==
    Add(Mul(Int2Num(monthly_budget), wt.w_btc), Mul(Int2Num(monthly_budget), wt.w_eth))

\* what strategy s has spent in the first k months
RECURSIVE Spent(_, _)
Spent(s, k) ==
    IF k = 0 THEN Zero ELSE Add(Spent(s, k - 1), SpentWith(Weights(s, k - 1)))

\* the value of a number that holds no eps
Exact(x) == Laurent(x, 0)

SetMax(set) == CHOOSE m \in set : \A x \in set : m >= x

----------------------------------------------------------------------------
(* C1: at every step the ATH strategy's two weights are non-negative and   *)
(* sum to 1 within 1e-9, step 0 included.                                  *)
C1_AthWeightsSumToOne ==
    (pc \in {"loop", "done"} /\ i >= 1) =>
        /\ Sign(w["ATH"].w_btc) >= 0
        /\ Sign(w["ATH"].w_eth) >= 0
        /\ Within(Add(w["ATH"].w_btc, w["ATH"].w_eth), One, Tolerance)

(* C2: when both assets are at their running ATH (both distances 0), the   *)
(* ATH strategy's weights are 0.5 / 0.5 within 1e-9.                       *)
C2_EvenSplitAtAth ==
    (pc \in {"loop", "done"} /\ i >= 1
        /\ w["ATH"].dist_btc = Zero /\ w["ATH"].dist_eth = Zero) =>
        /\ Within(w["ATH"].w_btc, Half, Tolerance)
        /\ Within(w["ATH"].w_eth, Half, Tolerance)

(* C3: every strategy spends exactly monthly_budget in every month, and    *)
(* after the loop has spent total_invested = monthly_budget * n in all.    *)
C3_BudgetFullySpent ==
    /\ (pc \in {"loop", "done"} /\ i >= 1) =>
          \A s \in Strategies : SpentWith(w[s]) = Int2Num(monthly_budget)
    /\ pc = "done" => \A s \in Strategies : Spent(s, n) = total_invested

(* C4: for positive prices the market-cap weights are non-negative, sum to *)
(* exactly 1, and w_btc_mc = 1 / (1 + (p_eth * supplyRatio) / p_btc); the  *)
(* equal-weight strategy uses 0.5 / 0.5 whatever the prices.               *)
C4_McAndEqWeights ==
    Weighed =>
        /\ Sign(w["MC"].w_btc) >= 0
        /\ Sign(w["MC"].w_eth) >= 0
        /\ Add(w["MC"].w_btc, w["MC"].w_eth) = One
        /\ Exact(w["MC"].w_btc) =
              Rat(SupplyBtc * btc_prices[i],
                  SupplyBtc * btc_prices[i] + SupplyEth * eth_prices[i])
        /\ w["EQ"].w_btc = Half
        /\ w["EQ"].w_eth = Half

C4_Witness ==
    /\ Weighed
    /\ btc_prices[i] # eth_prices[i]
    /\ Exact(w["MC"].w_btc) # Exact(w["MC"].w_eth)

(* C5: the running ATH of a series of n >= 1 prices has n elements,        *)
(* element k is the maximum of the first k prices, it never decreases, it  *)
(* starts at the first price and is never below the price.                 *)
IsRunningMax(ath, prices) ==
    /\ Len(ath) = Len(prices)
    /\ \A k \in 1..Len(prices) : ath[k] = SetMax({prices[j] : j \in 1..k})
    /\ \A k \in 1..(Len(prices) - 1) : ath[k] <= ath[k + 1]
    /\ ath[1] = prices[1]
    /\ \A k \in 1..Len(prices) : ath[k] >= prices[k]

C5_RunningAth ==
    pc \in {"ath", "loop", "done"} =>
        IsRunningMax(btc_ath, btc_prices) /\ IsRunningMax(eth_ath, eth_prices)

C5_Witness ==
    /\ pc = "ath"
    /\ \E j, k \in 1..n : j < k /\ btc_ath[j] > btc_prices[j] /\ btc_ath[k] > btc_ath[j]

(* C6: no holding of any strategy ever decreases, and every holding is 0   *)
(* before step 0.                                                          *)
C6_HoldingsNeverDecrease ==
    /\ []((pc = "loop" /\ i = 0) =>
            \A s \in Strategies : btc_holding[s] = Zero /\ eth_holding[s] = Zero)
    /\ [][\A s \in Strategies :
            /\ Le(btc_holding[s], btc_holding'[s])
            /\ Le(eth_holding[s], eth_holding'[s])]_vars

C6_Witness ==
    /\ pc = "loop"
    /\ i >= 2
    /\ \A s \in Strategies : Sign(btc_holding[s]) > 0 /\ Sign(eth_holding[s]) > 0

(* C7: with fewer than 12 points the run aborts before the simulation: no  *)
(* holding changes and no value is recorded; 12 points are accepted.       *)
C7_MinimumLength ==
    /\ n < 12 => pc \in {"check", "aborted"}
    /\ pc = "aborted" =>
          /\ n < 12
          /\ i = 0
          /\ \A s \in Strategies :
                btc_holding[s] = Zero /\ eth_holding[s] = Zero /\ value[s] = <<>>
    /\ n >= 12 => pc # "aborted"

C7_Witness ==
    /\ pc = "aborted"
    /\ n = MinPoints - 1

(* C8: a step whose price is not positive aborts: no iteration completes   *)
(* (accumulates holdings, records a value) on a non-positive price.        *)
C8_NonPositivePriceAborts ==
    pc \in {"loop", "done"} =>
        \A k \in 1..i : btc_prices[k] > 0 /\ eth_prices[k] > 0

(* C9: running the three strategies in any order within a step, each one   *)
(* updating its holdings and recording its value before the next starts,   *)
(* gives the holdings and value series the script's order gives.           *)
RECURSIVE InOrder(_, _, _)
InOrder(order, st, k) ==
    IF order = <<>> THEN st
    ELSE InOrder(Tail(order), Record(Head(order), Block(Head(order), st, k), k), k)

Orders == {o \in [1..3 -> Strategies] : \A a, b \in 1..3 : a # b => o[a] # o[b]}

C9_OrderIndependent ==
    (pc = "loop" /\ i < n) =>
        \E st \in {[btc_holding |-> btc_holding, eth_holding |-> eth_holding,
                     value |-> value, w |-> w]} :
            \E scripted \in {LoopBody(st, i)} :
                \A o \in Orders : InOrder(o, st, i) = scripted

C9_Witness ==
    /\ pc = "loop"
    /\ i >= 1
    /\ i < n
    /\ btc_holding["ATH"] # btc_holding["MC"]
    /\ btc_holding["MC"] # btc_holding["EQ"]

(* C10: the loop ends after exactly n steps; after k steps every value     *)
(* series has k elements, the last one being the holdings after that       *)
(* month's purchase at that month's prices.                                *)
C10_StepInvariant ==
    /\ pc \in {"loop", "done"} =>
          /\ i <= n
          /\ \A s \in Strategies :
                /\ Len(value[s]) = i
                /\ i >= 1 =>
                      value[s][i] =
                          Add(Mul(btc_holding[s], Int2Num(btc_prices[i])),
                              Mul(eth_holding[s], Int2Num(eth_prices[i])))
    /\ pc = "done" => i = n

C10_LoopTerminates ==
    /\ []C10_StepInvariant
    /\ (pc = "loop") ~> (pc = "done")

C10_Witness ==
    /\ pc = "done"
    /\ i = n
    /\ \A s \in Strategies : Len(value[s]) = n
    /\ value["ATH"][n] # value["EQ"][n]

====
